---- MODULE Spec2Model ----
(***************************************************************************)
(* Model of parsnip/plotting.py: four stateless rendering functions that   *)
(* draw on a matplotlib canvas.  The state is the canvas as one call       *)
(* leaves it: the figures and axes the call created, the drawing           *)
(* operations it issued in order, the y-limits it set, the error it raised *)
(* and the locals it computed.  `call` holds the function called and its   *)
(* arguments, including what the model collaborator returns for them.      *)
(*                                                                         *)
(* Units.  Fluxes are even integers, so that the median of an even number  *)
(* of draws (the mean of the two middle values) is an integer.  The        *)
(* y-limits are kept in tenths: (-0.2*M, 1.2*M) is <<-2*M, 12*M>>.         *)
(* Confusion-matrix cells are kept in units of 1/Unit, Unit = MaxObjects!, *)
(* which every possible row total divides.                                 *)
(***************************************************************************)
EXTENDS Integers, Sequences, FiniteSets, TLC

VARIABLES call, pc, figures, axes, ops, ylim, error, locals

vars == <<call, pc, figures, axes, ops, ylim, error, locals>>

(***************************************************************************)
(* Bounds and input alphabets                                              *)
(***************************************************************************)
MaxDraws == 2
MaxObjects == 3
MaxRows == 3

\* Band names in the order group_by('band') yields them (sorted by key).
AllBands == <<"g", "i", "r">>
BandNames == {AllBands[i] : i \in 1..Len(AllBands)}
\* Values of model.settings['bands'].
BandLists == {<<"g">>, <<"r", "g">>, <<"g", "r">>, <<"i", "g", "r">>}
Times == {1, 2}
\* Predicted fluxes are nonnegative.
FluxValues == {0, 4}
DrawOffsets == {0, 2}
AxArgs == {"None", "given"}

(***************************************************************************)
(* Helpers                                                                 *)
(***************************************************************************)
Max2(a, b) == IF a >= b THEN a ELSE b
Min2(a, b) == IF a <= b THEN a ELSE b
SetMax(S) == CHOOSE x \in S : \A y \in S : y <= x
Range(s) == {s[i] : i \in 1..Len(s)}

\* One drawing operation issued on an axes.
Op(ax, op, label, c, data) ==
    [ax |-> ax, op |-> op, label |-> label, c |-> c, data |-> data]

NoYLim == [set |-> FALSE, lo |-> 0, hi |-> 0]

\* Mutant of Subplots: a figure is created whether or not an ax is given.
SubplotsAlways(ax) == [figures |-> 1, axes |-> <<"ax">>, target |-> "ax"]

\* `if ax is None: fig, ax = plt.subplots(...)`: the figures created, the
\* axes created and the axes drawn on.
Subplots(ax) ==
    IF ax = "None"
    THEN [figures |-> 1, axes |-> <<"ax">>, target |-> "ax"]
    ELSE [figures |-> 0, axes |-> <<>>, target |-> ax]

\* np.median of a nonempty set of draws given as a sequence: the middle value,
\* or the mean of the two middle values.
SortedCount(s, v) == Cardinality({i \in 1..Len(s) : s[i] < v})
Kth(s, k) ==
    CHOOSE v \in Range(s) :
        /\ SortedCount(s, v) < k
        /\ Cardinality({i \in 1..Len(s) : s[i] <= v}) >= k
Median(s) ==
    LET n == Len(s)
    IN  IF n % 2 = 1 THEN Kth(s, (n + 1) \div 2)
        ELSE (Kth(s, n \div 2) + Kth(s, n \div 2 + 1)) \div 2

(***************************************************************************)
(* plot_light_curve                                                        *)
(***************************************************************************)
\* What model.predict_light_curve returns as model_flux: shape (bands, times)
\* for count == 0 and (draws, bands, times) for count > 0.
FluxArrays(nb, count) ==
    LET Base == [1..nb -> [Times -> FluxValues]]
    IN  IF count = 0 THEN Base
        ELSE {[d \in 1..count |-> [b \in 1..nb |-> [t \in Times |-> base[b][t] + off[d]]]] :
                 base \in Base, off \in [1..count -> DrawOffsets]}

LightCurveCall(observed, model, bands, count, flux, sub, smb, ax) ==
    [fn |-> "plot_light_curve", observed |-> observed, model |-> model,
     bands |-> bands, count |-> count, model_flux |-> flux,
     show_uncertainty_bands |-> sub, show_missing_bandpasses |-> smb, ax |-> ax]

InitLightCurve ==
    \E observed \in SUBSET BandNames, sub \in BOOLEAN, smb \in BOOLEAN, ax \in AxArgs :
        \/ call = LightCurveCall(observed, FALSE, <<>>, 0, <<>>, sub, smb, ax)
        \/ \E bands \in BandLists, count \in {0, MaxDraws} :
              \E flux \in FluxArrays(Len(bands), count) :
                 call = LightCurveCall(observed, TRUE, bands, count, flux, sub, smb, ax)

\* Lines 22-34: one error-bar plot per band of the light curve, in group order.
GroupKeys(observed) == SelectSeq(AllBands, LAMBDA b : b \in observed)

ObservedOps(target, observed) ==
    LET keys == GroupKeys(observed)
    IN  [i \in 1..Len(keys) |-> Op(target, "errorbar", keys[i], keys[i], <<keys[i]>>)]

\* Mutant of SkipBand: show_missing_bandpasses is ignored.
SkipBandUnobserved(c, used_bandpasses, band_name) ==
    band_name \notin Range(used_bandpasses)

\* Line 45: whether the loop skips a band of the model.
SkipBand(c, used_bandpasses, band_name) ==
    band_name \notin Range(used_bandpasses) /\ ~c.show_missing_bandpasses

\* Lines 51-55: the label of the band's model line.
ModelLabel(label_model) == IF label_model THEN "ParSNIP Model" ELSE "None"

\* model_flux[:, band_idx] at one time: the draws of a band at a timestep.
DrawsAt(c, band_idx, t) == [d \in 1..c.count |-> c.model_flux[d][band_idx][t]]

\* Line 64: np.median(model_flux[:, band_idx], axis=0).
FluxMedian(c, band_idx) == [t \in Times |-> Median(DrawsAt(c, band_idx, t))]

\* np.max of the whole (draws, bands, times) array.
ArrayMax(c) ==
    SetMax({c.model_flux[d][b][t] : d \in 1..c.count, b \in 1..Len(c.bands), t \in Times})

CurveMax(curve) == SetMax({curve[t] : t \in Times})

\* Lines 60, 72, 76: band_max_model in the three rendering modes.
BandMaxModel(c, band_idx) ==
    IF c.count = 0 THEN CurveMax(c.model_flux[band_idx])
    ELSE IF c.show_uncertainty_bands THEN CurveMax(FluxMedian(c, band_idx))
    ELSE ArrayMax(c)

\* Lines 57-76: what is drawn for one band of the model.  The percentile
\* curves of fill_between are not computed: its operation carries the band.
ModelBandOps(c, target, band_idx, label) ==
    LET band_name == c.bands[band_idx]
    IN  IF c.count = 0
        THEN <<Op(target, "plot", label, band_name, <<c.model_flux[band_idx]>>)>>
        ELSE IF c.show_uncertainty_bands
        THEN <<Op(target, "plot", label, band_name, <<FluxMedian(c, band_idx)>>),
               Op(target, "fill_between", "None", band_name, <<band_idx>>)>>
        ELSE <<Op(target, "plot", "None", band_name,
                  [d \in 1..c.count |-> c.model_flux[d][band_idx]])>>

\* Lines 44-78: the loop over enumerate(model.settings['bands']).
RECURSIVE ModelLoop(_, _, _, _, _)
ModelLoop(c, target, used_bandpasses, band_idx, st) ==
    IF band_idx > Len(c.bands) THEN st
    ELSE IF SkipBand(c, used_bandpasses, c.bands[band_idx])
    THEN ModelLoop(c, target, used_bandpasses, band_idx + 1, st)
    ELSE ModelLoop(c, target, used_bandpasses, band_idx + 1,
            [ops |-> st.ops \o ModelBandOps(c, target, band_idx, ModelLabel(st.label_model)),
             max_model |-> Max2(st.max_model, BandMaxModel(c, band_idx)),
             label_model |-> FALSE])

\* Line 80: ax.set_ylim(-0.2 * max_model, 1.2 * max_model), in tenths.
SetYLim(max_model) == [set |-> TRUE, lo |-> -2 * max_model, hi |-> 12 * max_model]

PlotLightCurve ==
    /\ pc = "call"
    /\ call.fn = "plot_light_curve"
    /\ LET sp == Subplots(call.ax)
           used_bandpasses == GroupKeys(call.observed)
           observedOps == ObservedOps(sp.target, call.observed)
           st == IF call.model
                 THEN ModelLoop(call, sp.target, used_bandpasses, 1,
                                [ops |-> <<>>, max_model |-> 0, label_model |-> TRUE])
                 ELSE [ops |-> <<>>, max_model |-> 0, label_model |-> TRUE]
       IN  /\ figures' = sp.figures
           /\ axes' = sp.axes
           /\ ops' = observedOps \o st.ops
                       \o <<Op(sp.target, "legend", "None", "None", <<>>),
                            Op(sp.target, "set_xlabel", "None", "None", <<"Time (days)">>),
                            Op(sp.target, "set_ylabel", "None", "None", <<"Flux">>)>>
           /\ ylim' = IF call.model THEN SetYLim(st.max_model) ELSE NoYLim
           /\ locals' = [used_bandpasses |-> used_bandpasses, max_model |-> st.max_model]
    /\ pc' = "done"
    /\ error' = "None"
    /\ UNCHANGED call

(***************************************************************************)
(* plot_spectrum                                                           *)
(***************************************************************************)
\* What model.predict_spectrum returns: shape (wavelength,) for count == 0 and
\* (draws, wavelength) for count > 0.  The wavelength grid is indexed like Times.
SpectraArrays(count) ==
    LET Base == [Times -> FluxValues]
    IN  IF count = 0 THEN Base
        ELSE {[d \in 1..count |-> [w \in Times |-> base[w] + off[d]]] :
                 base \in Base, off \in [1..count -> DrawOffsets]}

InitSpectrum ==
    \E count \in {0, MaxDraws}, show_bands \in BOOLEAN, ax \in AxArgs,
       label \in {"None", "spectrum"} :
        \E spectra \in SpectraArrays(count) :
            call = [fn |-> "plot_spectrum", count |-> count, show_bands |-> show_bands,
                    ax |-> ax, label |-> label, model_spectra |-> spectra]

\* Line 101: np.median(model_spectra, axis=0).
SpectrumMedian(c) ==
    [w \in Times |-> Median([d \in 1..c.count |-> c.model_spectra[d][w]])]

\* Lines 95-109.
SpectrumOps(c, target) ==
    IF c.count = 0
    THEN <<Op(target, "plot", c.label, "None", <<c.model_spectra>>)>>
    ELSE IF c.show_bands
    THEN <<Op(target, "plot", c.label, "None", <<SpectrumMedian(c)>>),
           Op(target, "fill_between", "None", "None", <<>>)>>
    ELSE <<Op(target, "plot", "None", "None", c.model_spectra)>>

PlotSpectrum ==
    /\ pc = "call"
    /\ call.fn = "plot_spectrum"
    /\ LET sp == Subplots(call.ax)
       IN  /\ figures' = sp.figures
           /\ axes' = sp.axes
           /\ ops' = SpectrumOps(call, sp.target)
                       \o <<Op(sp.target, "set_xlabel", "None", "None", <<"Wavelength">>),
                            Op(sp.target, "set_ylabel", "None", "None", <<"Flux">>)>>
    /\ pc' = "done"
    /\ error' = "None"
    /\ UNCHANGED <<call, ylim, locals>>

(***************************************************************************)
(* plot_confusion_matrix                                                   *)
(***************************************************************************)
\* Values of classifications.columns and of predictions['label'].
ColumnLists == {<<"Other", "SNIa">>, <<"SNIa", "Other">>, <<"SNIa", "SNII">>,
                <<"Other", "SNIa", "SNII">>}
LabelNames == {"SNIa", "SNII", "Other"}
\* A row of the score table: one class on top, or all classes tied.
ScoreRows(ncols) ==
    {[j \in 1..ncols |-> IF j = k THEN 1 ELSE 0] : k \in 1..ncols}
        \cup {[j \in 1..ncols |-> 1]}
TitleArgs == {"None", "title"}

RECURSIVE Factorial(_)
Factorial(n) == IF n <= 1 THEN 1 ELSE n * Factorial(n - 1)
\* The value 1.0 of a matrix cell.
Unit == Factorial(MaxObjects)

InitConfusionMatrix ==
    \E columns \in ColumnLists, n \in 1..MaxObjects, title \in TitleArgs :
        \E label \in [1..n -> LabelNames], scores \in [1..n -> ScoreRows(Len(columns))] :
            call = [fn |-> "plot_confusion_matrix", columns |-> columns,
                    label |-> label, scores |-> scores, title |-> title]

\* Mutant of TrueLabels: any two-column table is taken as one-vs-rest.
TrueLabelsAnyPair(c) ==
    IF Len(c.columns) = 2
    THEN [i \in 1..Len(c.label) |->
             IF c.label[i] = c.columns[2] THEN c.columns[2] ELSE "Other"]
    ELSE c.label

\* Lines 121-128: the true labels handed to confusion_matrix.
TrueLabels(c) ==
    IF Len(c.columns) = 2 /\ c.columns[1] = "Other"
    THEN LET target_label == c.columns[2]
         IN  [i \in 1..Len(c.label) |->
                 IF c.label[i] = target_label THEN target_label ELSE "Other"]
    ELSE c.label

\* classifications.idxmax(axis=1): the column of the first maximum of each row.
IdxMax(columns, row) ==
    LET top == SetMax({row[j] : j \in 1..Len(columns)})
        first == CHOOSE j \in 1..Len(columns) :
                     row[j] = top /\ \A k \in 1..(j - 1) : row[k] # top
    IN  columns[first]

Predicted(c) == [i \in 1..Len(c.scores) |-> IdxMax(c.columns, c.scores[i])]

\* confusion_matrix(y_true, y_pred, labels=..., normalize=None): cell [a][b]
\* counts the objects of true class labels[a] predicted as labels[b].
CountMatrix(y_true, y_pred, labels) ==
    [a \in 1..Len(labels) |-> [b \in 1..Len(labels) |->
        Cardinality({i \in 1..Len(y_true) :
                        y_true[i] = labels[a] /\ y_pred[i] = labels[b]})]]

RECURSIVE SumTo(_, _)
SumTo(row, n) == IF n = 0 THEN 0 ELSE row[n] + SumTo(row, n - 1)
RowSum(row) == SumTo(row, Len(row))

\* Mutant of NormalizeTrue: normalize='pred', each column divided by its sum.
NormalizePred(counts) ==
    [a \in DOMAIN counts |-> [b \in DOMAIN counts |->
        LET col == [k \in DOMAIN counts |-> counts[k][b]]
        IN  IF RowSum(col) = 0 THEN 0 ELSE (counts[a][b] * Unit) \div RowSum(col)]]

\* normalize='true': each row divided by its sum, a row without objects left
\* at 0 (nan_to_num).  Cells in units of 1/Unit.
NormalizeTrue(counts) ==
    [a \in DOMAIN counts |-> [b \in DOMAIN counts |->
        IF RowSum(counts[a]) = 0 THEN 0
        ELSE (counts[a][b] * Unit) \div RowSum(counts[a])]]

\* Lines 133-134.
ConfusionMatrix(y_true, y_pred, labels) ==
    NormalizeTrue(CountMatrix(y_true, y_pred, labels))

\* confusion_matrix rejects a list of labels none of which is a true label.
NoLabelInTrue(y_true, labels) == Range(y_true) \cap Range(labels) = {}

MatrixMax(cm) == SetMax({cm[a][b] : a \in DOMAIN cm, b \in DOMAIN cm})

\* Line 147: the colour of a cell's annotation; thresh is cm.max() / 2.
TextColor(cm, a, b) == IF 2 * cm[a][b] > MatrixMax(cm) THEN "white" ELSE "black"

\* Lines 144-147: itertools.product(range(rows), range(cols)), row-major.
TextOps(cm) ==
    LET n == Len(cm)
    IN  [k \in 1..(n * n) |->
            LET a == ((k - 1) \div n) + 1
                b == ((k - 1) % n) + 1
            IN  Op("gca", "text", "None", TextColor(cm, a, b), <<a, b>>)]

PlotConfusionMatrix ==
    /\ pc = "call"
    /\ call.fn = "plot_confusion_matrix"
    /\ LET labels == TrueLabels(call)
           class_names == call.columns
           predicted == Predicted(call)
       IN  /\ figures' = 1
           /\ IF NoLabelInTrue(labels, class_names)
              THEN /\ pc' = "raised"
                   /\ error' = "ValueError"
                   /\ axes' = <<>>
                   /\ ops' = <<>>
                   /\ locals' = [labels |-> labels, predicted |-> predicted]
              ELSE LET cm == ConfusionMatrix(labels, predicted, class_names)
                   IN  /\ pc' = "done"
                       /\ error' = "None"
                       /\ axes' = <<"gca", "cax">>
                       /\ ops' = <<Op("gca", "imshow", "None", "Blues", cm),
                                   Op("gca", "xticks", "None", "None", class_names),
                                   Op("gca", "yticks", "None", "None", class_names)>>
                                 \o TextOps(cm)
                                 \o <<Op("gca", "ylabel", "None", "None", <<"True Label">>),
                                      Op("gca", "xlabel", "None", "None", <<"Predicted Label">>)>>
                                 \o (IF call.title # "None"
                                     THEN <<Op("gca", "title", "None", "None", <<call.title>>)>>
                                     ELSE <<>>)
                                 \o <<Op("cax", "colorbar", "None", "None", <<"Fraction of objects">>)>>
                       /\ locals' = [labels |-> labels, predicted |-> predicted, cm |-> cm]
    /\ UNCHANGED <<call, ylim>>

(***************************************************************************)
(* plot_representation                                                     *)
(***************************************************************************)
\* Lines 166-185: the keys of color_map.
ColorMapKeys == {"SNIa", "SNIax", "SNIa-91bg", "SLSN", "SNII", "SNIIn", "SNIbc",
                 "KN", "CaRT", "ILOT", "PISN", "TDE", "FELT", "Peculiar"}
RowLabels == {"SNIa", "SNII"}
PlotLabelLists == {<<"SNIa">>, <<"SNII", "SNIa">>, <<"SNIa", "AGN">>}
Idx3Args == {"None", "3"}

\* A table is the sequence of the row numbers of predictions it holds; a cell
\* of it is <<column, row>>.
InitRepresentation ==
    \E n \in 0..MaxRows, plot_labels \in PlotLabelLists, max_count \in 0..MaxRows,
       idx3 \in Idx3Args, ax \in AxArgs, show_legend \in BOOLEAN, has_mask \in BOOLEAN :
        \E label \in [1..n -> RowLabels],
           mask \in IF has_mask THEN [1..n -> BOOLEAN] ELSE {<<>>} :
            call = [fn |-> "plot_representation", label |-> label,
                    plot_labels |-> plot_labels, has_mask |-> has_mask,
                    mask |-> mask,
                    idx1 |-> "1", idx2 |-> "2", idx3 |-> idx3,
                    max_count |-> max_count, show_legend |-> show_legend, ax |-> ax]

AllRows(c) == [r \in 1..Len(c.label) |-> r]

\* table[f's{idx}'] and table[f's{idx}_error'].
Column(table, idx) == [k \in 1..Len(table) |-> <<"s" \o idx, table[k]>>]
ErrorColumn(table, idx) == [k \in 1..Len(table) |-> <<"s" \o idx \o "_error", table[k]>>]

\* Mutant of Truncate: one row too many is kept.
TruncateOffByOne(column, max_count) ==
    SubSeq(column, 1, Min2(max_count + 1, Len(column)))

\* column[:max_count] for max_count >= 0.
Truncate(column, max_count) == SubSeq(column, 1, Min2(max_count, Len(column)))

\* Lines 187-212: the figure and axes created and the panels (xidx, yidx, ax).
Panels(c) ==
    IF c.idx3 # "None"
    THEN [figures |-> 1, axes |-> <<"ax12", "ax13", "ax32", "legend_ax">>,
          plot_vals |-> <<<<c.idx1, c.idx2, "ax12">>, <<c.idx1, c.idx3, "ax13">>,
                          <<c.idx3, c.idx2, "ax32">>>>]
    ELSE LET sp == Subplots(c.ax)
         IN  [figures |-> sp.figures, axes |-> sp.axes,
              plot_vals |-> <<<<c.idx1, c.idx2, sp.target>>>>]

\* Mutant of UsageError: the check is missing.
UsageErrorNever(c) == FALSE

\* Line 188: the usage error of a 3D plot on a given axes.
UsageError(c) == c.idx3 # "None" /\ c.ax # "None"

\* Lines 215-221: the scatter of the rows the mask cuts, and the rows it keeps.
CutOps(c, xidx, yidx, ax) ==
    IF c.has_mask
    THEN LET cut_predictions == SelectSeq(AllRows(c), LAMBDA r : ~c.mask[r])
         IN  <<Op(ax, "scatter", "Unknown", "k",
                  [x |-> Column(cut_predictions, xidx), y |-> Column(cut_predictions, yidx)])>>
    ELSE <<>>

ValidPredictions(c) ==
    IF c.has_mask THEN SelectSeq(AllRows(c), LAMBDA r : c.mask[r]) ELSE AllRows(c)

\* Lines 224-239: the error-bar plot of one class.
TypeOp(c, xidx, yidx, ax, type_name) ==
    LET type_predictions ==
            SelectSeq(ValidPredictions(c), LAMBDA r : c.label[r] = type_name)
    IN  Op(ax, "errorbar", type_name, type_name,
           [x |-> Truncate(Column(type_predictions, xidx), c.max_count),
            y |-> Truncate(Column(type_predictions, yidx), c.max_count),
            xerr |-> Truncate(ErrorColumn(type_predictions, xidx), c.max_count),
            yerr |-> Truncate(ErrorColumn(type_predictions, yidx), c.max_count)])

\* Lines 223-241: the loop over plot_labels; color_map[type_name] raises
\* KeyError for a name that is no key.
RECURSIVE TypeLoop(_, _, _, _, _, _)
TypeLoop(c, xidx, yidx, ax, k, st) ==
    IF k > Len(c.plot_labels) THEN st
    ELSE IF c.plot_labels[k] \notin ColorMapKeys
    THEN [ops |-> st.ops, error |-> "KeyError"]
    ELSE TypeLoop(c, xidx, yidx, ax, k + 1,
            [ops |-> Append(st.ops, TypeOp(c, xidx, yidx, ax, c.plot_labels[k])),
             error |-> "None"])

\* Mutant of PanelOps: the cut rows are drawn after the classes.
PanelOpsCutLast(c, xidx, yidx, ax) ==
    LET t == TypeLoop(c, xidx, yidx, ax, 1, [ops |-> <<>>, error |-> "None"])
    IN  [ops |-> t.ops \o CutOps(c, xidx, yidx, ax), error |-> t.error]

\* Lines 215-241: what one panel draws.
PanelOps(c, xidx, yidx, ax) ==
    TypeLoop(c, xidx, yidx, ax, 1, [ops |-> CutOps(c, xidx, yidx, ax), error |-> "None"])

\* Line 214: the loop over plot_vals.
RECURSIVE PanelLoop(_, _, _, _)
PanelLoop(c, plot_vals, k, st) ==
    IF k > Len(plot_vals) \/ st.error # "None" THEN st
    ELSE LET p == PanelOps(c, plot_vals[k][1], plot_vals[k][2], plot_vals[k][3])
         IN  PanelLoop(c, plot_vals, k + 1,
                       [ops |-> st.ops \o p.ops, error |-> p.error])

\* Lines 243-260: axis labels and the legend.
LabelOps(c, plot_vals) ==
    IF c.idx3 # "None"
    THEN <<Op("ax12", "set_xlabel", "None", "None", <<"s", c.idx1>>),
           Op("ax12", "set_ylabel", "None", "None", <<"s", c.idx2>>),
           Op("ax13", "set_ylabel", "None", "None", <<"s", c.idx3>>),
           Op("ax13", "tick_params", "None", "None", <<"labelbottom">>),
           Op("ax32", "set_xlabel", "None", "None", <<"s", c.idx3>>),
           Op("ax32", "tick_params", "None", "None", <<"labelleft">>)>>
         \o (IF c.show_legend
             THEN <<Op("legend_ax", "legend", "None", "None", <<"ax12">>)>>
             ELSE <<>>)
    ELSE LET ax == plot_vals[1][3]
         IN  <<Op(ax, "set_xlabel", "None", "None", <<"s", c.idx1>>),
               Op(ax, "set_ylabel", "None", "None", <<"s", c.idx2>>)>>
             \o (IF c.show_legend
                 THEN <<Op(ax, "legend", "None", "None", <<ax>>)>>
                 ELSE <<>>)

PlotRepresentation ==
    /\ pc = "call"
    /\ call.fn = "plot_representation"
    /\ IF UsageError(call)
       THEN /\ pc' = "raised"
            /\ error' = "Exception"
            /\ UNCHANGED <<figures, axes, ops>>
       ELSE LET pn == Panels(call)
                st == PanelLoop(call, pn.plot_vals, 1, [ops |-> <<>>, error |-> "None"])
            IN  /\ figures' = pn.figures
                /\ axes' = pn.axes
                /\ error' = st.error
                /\ IF st.error # "None"
                   THEN /\ pc' = "raised"
                        /\ ops' = st.ops
                   ELSE /\ pc' = "done"
                        /\ ops' = st.ops \o LabelOps(call, pn.plot_vals)
    /\ UNCHANGED <<call, ylim, locals>>

Init ==
    /\ (InitLightCurve \/ InitSpectrum \/ InitConfusionMatrix \/ InitRepresentation)
    /\ pc = "call"
    /\ figures = 0
    /\ axes = <<>>
    /\ ops = <<>>
    /\ ylim = NoYLim
    /\ error = "None"
    /\ locals = <<>>

Next == PlotLightCurve \/ PlotSpectrum \/ PlotConfusionMatrix \/ PlotRepresentation

Spec == Init /\ [][Next]_vars

(***************************************************************************)
(* Properties                                                              *)
(***************************************************************************)
Returned(fn) == pc # "call" /\ call.fn = fn
Done(fn) == pc = "done" /\ call.fn = fn
ModelDone == Done("plot_light_curve") /\ call.model

OpsOf(kind) == {i \in 1..Len(ops) : ops[i].op = kind}

\* The values of the model series drawn on the axes.
DrawnValues ==
    UNION {{ops[i].data[k][t] : k \in 1..Len(ops[i].data), t \in Times} :
              i \in OpsOf("plot")}

\* C1: after a call with a model that overlays at least one band, the y-limits
\* are (-0.2*M, 1.2*M), M the maximum of the model series drawn on the axes.
C1_YLimOfDrawnSeries ==
    (ModelDone /\ DrawnValues # {}) =>
        ylim = [set |-> TRUE, lo |-> -2 * SetMax(DrawnValues),
                hi |-> 12 * SetMax(DrawnValues)]

LabelCount(label) == Cardinality({i \in 1..Len(ops) : ops[i].label = label})

\* C2: after a call with a model that overlays at least one band, the labelled
\* artists are each observed band's label once and one model label.
C2_OneModelLabel ==
    (ModelDone /\ OpsOf("plot") # {}) =>
        /\ \A b \in call.observed : LabelCount(b) = 1
        /\ LabelCount("ParSNIP Model") = 1
        /\ \A i \in 1..Len(ops) :
              ops[i].label \in {"None", "ParSNIP Model"} \cup call.observed

\* The positions in settings['bands'] of the bands C10 says are overlaid.
ShownIdx ==
    {k \in 1..Len(call.bands) :
        call.show_missing_bandpasses \/ call.bands[k] \in call.observed}

\* The series of the band at position k of the flux array's band axis.
SeriesAt(k) ==
    IF call.count = 0 THEN <<call.model_flux[k]>>
    ELSE IF call.show_uncertainty_bands
    THEN <<[t \in Times |->
              Median([d \in 1..call.count |-> call.model_flux[d][k][t]])]>>
    ELSE [d \in 1..call.count |-> call.model_flux[d][k]]

\* C10: the bands overlaid are the model's observed bands, or all of them with
\* show_missing_bandpasses, in the order of settings['bands'], each drawn from
\* the flux array at its own position in settings['bands'].
C10_OverlayBands ==
    ModelDone =>
        /\ Cardinality(OpsOf("plot")) = Cardinality(ShownIdx)
        /\ \A k \in ShownIdx :
              \E i \in OpsOf("plot") :
                 /\ ops[i].c = call.bands[k]
                 /\ ops[i].data = SeriesAt(k)
                 /\ Cardinality({j \in OpsOf("plot") : j < i})
                      = Cardinality({m \in ShownIdx : m < k})

\* C10 witness: a band is skipped before a band that is overlaid, and the two
\* have different predictions.
C10_Witness ==
    /\ ModelDone
    /\ \E k \in 1..Len(call.bands) :
          /\ k \notin ShownIdx
          /\ \E m \in ShownIdx : m > k /\ SeriesAt(m) # SeriesAt(k)

\* The ax argument of the call; plot_confusion_matrix takes none.
AxArg == IF call.fn = "plot_confusion_matrix" THEN "None" ELSE call.ax

DrawsOnlyOn(ax) == \A i \in 1..Len(ops) : ops[i].ax = ax

\* C3 as stated: every plot function creates exactly one figure/axes pair when
\* ax is None, and draws on the given ax and creates no figure otherwise.
C3_OneFigureAxesPair ==
    pc # "call" =>
        IF AxArg = "None"
        THEN figures = 1 /\ Len(axes) = 1
        ELSE pc = "done" /\ figures = 0 /\ axes = <<>> /\ DrawsOnlyOn(call.ax)

SinglePanel ==
    \/ call.fn \in {"plot_light_curve", "plot_spectrum"}
    \/ call.fn = "plot_representation" /\ call.idx3 = "None"

\* C3 amended: plot_light_curve, plot_spectrum and the 2D plot_representation
\* create one figure with one axes when ax is None and draw only on the given
\* ax, creating nothing, otherwise; plot_confusion_matrix always creates one
\* figure, with two axes when it completes; the 3D plot_representation creates
\* one figure with four axes when ax is None and creates and draws nothing
\* when an ax is given.
C3_FiguresPerFunction ==
    pc # "call" =>
        /\ SinglePanel /\ AxArg = "None" =>
              figures = 1 /\ axes = <<"ax">> /\ DrawsOnlyOn("ax")
        /\ SinglePanel /\ AxArg # "None" =>
              figures = 0 /\ axes = <<>> /\ DrawsOnlyOn(call.ax)
        /\ call.fn = "plot_confusion_matrix" =>
              figures = 1 /\ (pc = "done" => Len(axes) = 2)
        /\ ~SinglePanel /\ call.fn = "plot_representation" =>
              IF AxArg = "None"
              THEN figures = 1 /\ Len(axes) = 4
              ELSE pc = "raised" /\ figures = 0 /\ axes = <<>> /\ ops = <<>>

\* C3 witness: a light curve with a model was drawn on the caller's axes.
C3_Witness ==
    /\ ModelDone
    /\ call.ax = "given"
    /\ figures = 0
    /\ OpsOf("plot") # {}
    /\ OpsOf("errorbar") # {}

\* C4 as stated: every scatter of masked-out rows of a call is issued before
\* every error-bar plot of the call.
C4_CutBeforeAllClasses ==
    Returned("plot_representation") =>
        \A i \in OpsOf("scatter"), j \in OpsOf("errorbar") : i < j

PanelDraws(ax) == {i \in OpsOf("scatter") \cup OpsOf("errorbar") : ops[i].ax = ax}

\* C4 amended: on each panel the scatter of the masked-out rows is issued
\* first, before every error-bar plot of that panel; the panels of a 3D plot
\* are drawn one after the other (ax12, ax13, ax32), so a later panel's scatter
\* follows the earlier panels' error-bar plots.
C4_CutFirstOnEachPanel ==
    Returned("plot_representation") =>
        /\ \A i \in OpsOf("scatter"), j \in OpsOf("errorbar") :
              ops[i].ax = ops[j].ax => i < j
        /\ \A i \in PanelDraws("ax12"), j \in PanelDraws("ax13") : i < j
        /\ \A i \in PanelDraws("ax13"), j \in PanelDraws("ax32") : i < j
        /\ (pc = "done" /\ call.has_mask) =>
              {ops[i].ax : i \in OpsOf("scatter")} = {ops[j].ax : j \in OpsOf("errorbar")}

\* C4 witness: a 3D plot with a mask drew cut rows and two classes on each of
\* its three panels.
C4_Witness ==
    /\ Done("plot_representation")
    /\ call.idx3 # "None"
    /\ call.has_mask
    /\ Cardinality(OpsOf("scatter")) = 3
    /\ Cardinality(OpsOf("errorbar")) = 6
    /\ \E i \in OpsOf("scatter") : Len(ops[i].data.x) > 0
    /\ \E j \in OpsOf("errorbar") : Len(ops[j].data.x) > 0

\* The rows C5 says are rendered for a class: of the rows that pass the mask
\* and carry the label, those with fewer than max_count such rows before them.
Matching(type_name) ==
    {r \in 1..Len(call.label) :
        call.label[r] = type_name /\ (call.has_mask => call.mask[r])}
FirstRows(type_name) ==
    {r \in Matching(type_name) :
        Cardinality({q \in Matching(type_name) : q < r}) < call.max_count}

\* A column of cells holds exactly the rows of S of one table column, in table order.
HoldsRows(cells, column, S) ==
    /\ Len(cells) = Cardinality(S)
    /\ \A k \in 1..Len(cells) : cells[k][1] = column /\ cells[k][2] \in S
    /\ \A k \in 1..(Len(cells) - 1) : cells[k][2] < cells[k + 1][2]

PanelColumns ==
    IF call.idx3 = "None"
    THEN {[ax |-> IF call.ax = "None" THEN "ax" ELSE call.ax, x |-> "s1", y |-> "s2"]}
    ELSE {[ax |-> "ax12", x |-> "s1", y |-> "s2"], [ax |-> "ax13", x |-> "s1", y |-> "s3"],
          [ax |-> "ax32", x |-> "s3", y |-> "s2"]}

\* C5: every error-bar plot of a class holds, for x, y and both error columns,
\* exactly the first min(max_count, n) of the n rows that pass the mask and
\* carry the class label, in table order; a completed call has drawn one for
\* every class of plot_labels on every panel.
C5_FirstRowsPerClass ==
    Returned("plot_representation") =>
        /\ \A i \in OpsOf("errorbar") :
              \E p \in PanelColumns :
                 /\ p.ax = ops[i].ax
                 /\ HoldsRows(ops[i].data.x, p.x, FirstRows(ops[i].label))
                 /\ HoldsRows(ops[i].data.y, p.y, FirstRows(ops[i].label))
                 /\ HoldsRows(ops[i].data.xerr, p.x \o "_error", FirstRows(ops[i].label))
                 /\ HoldsRows(ops[i].data.yerr, p.y \o "_error", FirstRows(ops[i].label))
                 /\ Len(ops[i].data.x)
                      = Min2(call.max_count, Cardinality(Matching(ops[i].label)))
        /\ pc = "done" =>
              \A k \in 1..Len(call.plot_labels), p \in PanelColumns :
                 \E i \in OpsOf("errorbar") :
                    ops[i].label = call.plot_labels[k] /\ ops[i].ax = p.ax

\* C5 witness: with a mask that cuts an earlier row of the class, a class with
\* more matching rows than max_count was drawn truncated.
C5_Witness ==
    /\ Done("plot_representation")
    /\ call.has_mask
    /\ \E i \in OpsOf("errorbar") :
          /\ Len(ops[i].data.x) = call.max_count
          /\ call.max_count > 0
          /\ Cardinality(Matching(ops[i].label)) > call.max_count
          /\ \E r \in 1..Len(call.label) :
                /\ call.label[r] = ops[i].label
                /\ ~call.mask[r]
                /\ r < ops[i].data.x[1][2]

OneVsRest == Len(call.columns) = 2 /\ call.columns[1] = "Other"

\* C6: with exactly two columns, the first 'Other', a true label equal to the
\* second column's name is kept and every other one becomes 'Other', and the
\* matrix is 2x2; in every other case the true labels are passed unchanged.
C6_OneVsRestLabels ==
    Returned("plot_confusion_matrix") =>
        IF OneVsRest
        THEN /\ Len(locals.labels) = Len(call.label)
             /\ \A i \in 1..Len(call.label) :
                   /\ locals.labels[i] \in {"Other", call.columns[2]}
                   /\ call.label[i] = call.columns[2] => locals.labels[i] = call.columns[2]
                   /\ call.label[i] # call.columns[2] => locals.labels[i] = "Other"
             /\ pc = "done" =>
                   Len(locals.cm) = 2 /\ \A a \in 1..2 : Len(locals.cm[a]) = 2
        ELSE locals.labels = call.label

\* C6 witness: three distinct input labels were collapsed into a 2x2 matrix.
C6_Witness ==
    /\ Done("plot_confusion_matrix")
    /\ OneVsRest
    /\ Cardinality(Range(call.label)) = 3
    /\ Range(locals.labels) = {"Other", call.columns[2]}
    /\ Len(locals.cm) = 2

\* The objects of true class a, and those of them predicted as class b.
ObjectsOf(a) == {i \in 1..Len(locals.labels) : locals.labels[i] = call.columns[a]}
Cell(a, b) == {i \in ObjectsOf(a) : locals.predicted[i] = call.columns[b]}

\* The predicted label of every object is a class with the highest score.
PredictedIsArgMax ==
    \A i \in 1..Len(call.scores) :
        \E b \in 1..Len(call.columns) :
            /\ locals.predicted[i] = call.columns[b]
            /\ \A k \in 1..Len(call.columns) : call.scores[i][k] <= call.scores[i][b]

\* C7: when the set of true labels equals the set of class names, every row of
\* the matrix sums to 1, each cell being the number of the row's objects
\* predicted (by argmax) as the column's class over the number of objects of
\* the row's class.
C7_RowsSumToOne ==
    (Done("plot_confusion_matrix") /\ Range(locals.labels) = Range(call.columns)) =>
        /\ PredictedIsArgMax
        /\ \A a \in 1..Len(call.columns) :
              /\ RowSum(locals.cm[a]) = Unit
              /\ \A b \in 1..Len(call.columns) :
                    locals.cm[a][b] * Cardinality(ObjectsOf(a))
                        = Unit * Cardinality(Cell(a, b))

\* C7 witness: a three-class matrix whose true labels are the class names and
\* in which some class is predicted wrongly.
C7_Witness ==
    /\ Done("plot_confusion_matrix")
    /\ Range(locals.labels) = Range(call.columns)
    /\ Len(call.columns) = 3
    /\ \E a \in 1..3, b \in 1..3 : a # b /\ locals.cm[a][b] > 0

\* C8: a cell's annotation is white exactly when the cell is above 0.5, half
\* the maximum of the colormap, which spans 0 to 1.
C8_WhiteAboveHalfColormap ==
    Done("plot_confusion_matrix") =>
        \A i \in OpsOf("text") :
            ops[i].c = "white" <=> 2 * locals.cm[ops[i].data[1]][ops[i].data[2]] > Unit

\* C9: a 3D plot on a given ax raises the usage error with no figure or axes
\* created and nothing drawn; no other call raises it.
C9_UsageErrorFirst ==
    Returned("plot_representation") =>
        IF call.idx3 # "None" /\ call.ax # "None"
        THEN /\ pc = "raised"
             /\ error = "Exception"
             /\ figures = 0
             /\ axes = <<>>
             /\ ops = <<>>
        ELSE error # "Exception"

\* C9 witness: the usage error was raised for a call with rows to draw.
C9_Witness ==
    /\ Returned("plot_representation")
    /\ error = "Exception"
    /\ call.idx3 # "None"
    /\ call.ax = "given"
    /\ Len(call.label) > 0
====
